---------------------------- MODULE Spec2Model ----------------------------
(***************************************************************************)
(* Model of crates/packager/src/sign.rs: signing-key generation, decoding  *)
(* and persistence, and detached file signing.                             *)
(*                                                                         *)
(* Strings are sequences of bytes (0..255).  A path is a sequence of       *)
(* dot-separated name segments, so that appending ".pub" or ".sig" is      *)
(* Append(path, "pub") / Append(path, "sig").  The filesystem maps every   *)
(* path to [exists, data].  Every call is a record that walks through the  *)
(* statements of the function it runs, one filesystem or clock operation   *)
(* per step; the answer of the environment to that operation (success or   *)
(* failure of a syscall, the wall-clock time, the password typed at a      *)
(* prompt) is the parameter `e` of the step.                               *)
(***************************************************************************)
EXTENDS Integers, Sequences, FiniteSets, TLC

VARIABLES fs, procs, pre, prev, ncalls

vars == <<fs, procs, pre, prev, ncalls>>

(***************************************************************************)
(* Bounds                                                                  *)
(***************************************************************************)
\* Number of calls the sequential caller makes.
MaxCalls == 2

\* ------------------------------------------------------------------------
\* Option<T>: None is the empty tuple, Some(x) the 1-tuple.
None == <<>>
Some(x) == <<x>>
IsSome(o) == Len(o) = 1
Unwrap(o) == o[1]

(***************************************************************************)
(* base64::engine::general_purpose::STANDARD                               *)
(***************************************************************************)
PadChar == 61

\* ASCII code of the base64 digit with value v (0..63).
B64Char(v) ==
    IF v < 26 THEN 65 + v
    ELSE IF v < 52 THEN 97 + (v - 26)
    ELSE IF v < 62 THEN 48 + (v - 52)
    ELSE IF v = 62 THEN 43
    ELSE 47

\* Value of a base64 digit, or -1 when the byte is no digit of the alphabet.
B64Val(c) ==
    IF c >= 65 /\ c <= 90 THEN c - 65
    ELSE IF c >= 97 /\ c <= 122 THEN c - 97 + 26
    ELSE IF c >= 48 /\ c <= 57 THEN c - 48 + 52
    ELSE IF c = 43 THEN 62
    ELSE IF c = 47 THEN 63
    ELSE -1

RECURSIVE B64Encode(_)
B64Encode(bs) ==
    IF Len(bs) = 0 THEN <<>>
    ELSE IF Len(bs) = 1 THEN
        << B64Char(bs[1] \div 4), B64Char((bs[1] % 4) * 16), PadChar, PadChar >>
    ELSE IF Len(bs) = 2 THEN
        << B64Char(bs[1] \div 4),
           B64Char((bs[1] % 4) * 16 + bs[2] \div 16),
           B64Char((bs[2] % 16) * 4),
           PadChar >>
    ELSE
        << B64Char(bs[1] \div 4),
           B64Char((bs[1] % 4) * 16 + bs[2] \div 16),
           B64Char((bs[2] % 16) * 4 + bs[3] \div 64),
           B64Char(bs[3] % 64) >>
        \o B64Encode(SubSeq(bs, 4, Len(bs)))

\* Decoding of one 4-character quantum; `last` tells whether padding may occur.
B64Quantum(q, last) ==
    LET v1 == B64Val(q[1])
        v2 == B64Val(q[2])
        v3 == B64Val(q[3])
        v4 == B64Val(q[4])
    IN  IF v1 < 0 \/ v2 < 0 THEN [ok |-> FALSE, val |-> <<>>]
        ELSE IF q[3] = PadChar THEN
            IF last /\ q[4] = PadChar /\ v2 % 16 = 0
            THEN [ok |-> TRUE, val |-> << v1 * 4 + v2 \div 16 >>]
            ELSE [ok |-> FALSE, val |-> <<>>]
        ELSE IF v3 < 0 THEN [ok |-> FALSE, val |-> <<>>]
        ELSE IF q[4] = PadChar THEN
            IF last /\ v3 % 4 = 0
            THEN [ok |-> TRUE,
                  val |-> << v1 * 4 + v2 \div 16, (v2 % 16) * 16 + v3 \div 4 >>]
            ELSE [ok |-> FALSE, val |-> <<>>]
        ELSE IF v4 < 0 THEN [ok |-> FALSE, val |-> <<>>]
        ELSE [ok |-> TRUE,
              val |-> << v1 * 4 + v2 \div 16,
                         (v2 % 16) * 16 + v3 \div 4,
                         (v3 % 4) * 64 + v4 >>]

RECURSIVE B64Decode(_)
B64Decode(cs) ==
    IF Len(cs) = 0 THEN [ok |-> TRUE, val |-> <<>>]
    ELSE IF Len(cs) < 4 THEN [ok |-> FALSE, val |-> <<>>]
    ELSE
        LET q == B64Quantum(SubSeq(cs, 1, 4), Len(cs) = 4)
            r == B64Decode(SubSeq(cs, 5, Len(cs)))
        IN  IF q.ok /\ r.ok
            THEN [ok |-> TRUE, val |-> q.val \o r.val]
            ELSE [ok |-> FALSE, val |-> <<>>]

\* str::from_utf8: ASCII bytes and well-formed two-byte sequences are accepted
\* (the longer forms do not occur in the modelled inputs and are rejected).
RECURSIVE Utf8Valid(_)
Utf8Valid(bs) ==
    IF Len(bs) = 0 THEN TRUE
    ELSE IF bs[1] < 128 THEN Utf8Valid(Tail(bs))
    ELSE IF bs[1] >= 194 /\ bs[1] <= 223 /\ Len(bs) >= 2
            /\ bs[2] >= 128 /\ bs[2] <= 191
         THEN Utf8Valid(SubSeq(bs, 3, Len(bs)))
    ELSE FALSE

\* Results: one record shape for every function of the module.
\*   tag   "Ok" or the name of the error
\*   path  the path an error carries, or the first returned path
\*   path2 the second returned path (save_keypair)
\*   text  the returned text (encoded signature, decoded string)
\*   key   the returned secret key (0: none)
Res(tag) == [tag |-> tag, path |-> <<>>, path2 |-> <<>>, text |-> <<>>, key |-> 0]
NoRes == Res("none")
ErrPath(tag, p) == [Res(tag) EXCEPT !.path = p]

\* fn decode_base64
DecodeBase64Skip(base64_key) == [Res("Ok") EXCEPT !.text = base64_key]
decode_base64(base64_key) ==
    LET d == B64Decode(base64_key)
    IN  IF ~d.ok THEN Res("Base64")
        ELSE IF ~Utf8Valid(d.val) THEN Res("Utf8")
        ELSE [Res("Ok") EXCEPT !.text = d.val]


(***************************************************************************)
(* The signature-library collaborator (minisign), by its contract.  A key  *)
(* box is a short ASCII text: "S<id>:<password>" for a secret key          *)
(* encrypted under a password, "P<id>" for a public key.  The password     *)
(* bytes stand for the password-derived checksum of the real box: they are *)
(* read only by the collaborator's unlock.                                 *)
(***************************************************************************)
\* Key material the generator can draw.
Seeds == {1, 2}
\* Passwords: "", "a", "b".
Passwords == { <<>>, <<97>>, <<98>> }

SkBoxText(id, pw) == <<83, 48 + id, 58>> \o pw
PkBoxText(id) == <<80, 48 + id>>

\* minisign::KeyPair::generate_encrypted_keypair(password): e.seed is the key
\* material drawn, e.typed the password typed at the prompt when password = None.
GenerateEncryptedKeypair(password, e) ==
    [id |-> e.seed, pw |-> IF IsSome(password) THEN Unwrap(password) ELSE e.typed]

\* minisign::SecretKeyBox::from_string
SecretKeyBoxFromString(text) ==
    IF Len(text) >= 3 /\ text[1] = 83 /\ text[2] > 48 /\ text[2] <= 57 /\ text[3] = 58
    THEN [ok |-> TRUE, id |-> text[2] - 48, pw |-> SubSeq(text, 4, Len(text))]
    ELSE [ok |-> FALSE, id |-> 0, pw |-> <<>>]

\* minisign::SecretKeyBox::into_secret_key(password): typed is the password
\* typed at the prompt when password = None.
IntoSecretKey(box, password, typed) ==
    LET pw == IF IsSome(password) THEN Unwrap(password) ELSE typed
    IN  IF pw = box.pw THEN [Res("Ok") EXCEPT !.key = box.id]
        ELSE Res("WrongPassword")

\* fn generate_key
GenerateKeySwapped(password, e) ==
    LET g == GenerateEncryptedKeypair(password, e)
    IN  [pk |-> B64Encode(SkBoxText(g.id, g.pw)), sk |-> B64Encode(PkBoxText(g.id))]
generate_key(password, e) ==
    LET g == GenerateEncryptedKeypair(password, e)
        pk_box_str == PkBoxText(g.id)
        sk_box_str == SkBoxText(g.id, g.pw)
    IN  [pk |-> B64Encode(pk_box_str), sk |-> B64Encode(sk_box_str)]

\* fn decode_private_key
decode_private_key(private_key, password, typed) ==
    LET decoded_secret == decode_base64(private_key)
        sk_box == SecretKeyBoxFromString(decoded_secret.text)
    IN  IF decoded_secret.tag # "Ok" THEN decoded_secret
        ELSE IF ~sk_box.ok THEN Res("MalformedKeyBox")
        ELSE IntoSecretKey(sk_box, password, typed)

(***************************************************************************)
(* struct SigningConfig and its builder                                    *)
(***************************************************************************)
SigningConfigNew == [private_key |-> <<>>, password |-> None]
WithPrivateKey(config, private_key) == [config EXCEPT !.private_key = private_key]
WithPassword(config, password) == [config EXCEPT !.password = Some(password)]

(***************************************************************************)
(* Paths and the filesystem                                                *)
(***************************************************************************)
\* The root path has no file-name component.
Root == <<"/">>
PathArgs == { <<"k">>, <<"k", "pub">>, <<"k", "sig">> }
\* The paths the sequential caller passes.
SeqPathArgs == { <<"k">> }
SignPathArgs == SeqPathArgs \cup {Root}
AllPathArgs == PathArgs \cup {Root}
Files == AllPathArgs \cup { Append(p, x) : p \in AllPathArgs, x \in {"pub", "sig"} }

Procs == {1, 2}

\* A directory entry: whether a file is there, its bytes, and the calls that
\* hold an open handle on that very file (a file removed and created again is
\* another file: handles on the removed one no longer reach the path).
NoFile == [exists |-> FALSE, data |-> <<>>, h |-> {}]
File(data) == [exists |-> TRUE, data |-> data, h |-> {}]
\* Content of a file that was there before the program ran ("old").
OldData == <<111, 108, 100>>

\* Path::exists
Exists(f, p) == f[p].exists

\* fs::remove_file
RemoveFile(f, p) == [f EXCEPT ![p] = NoFile]

\* util::create_file (File::create behind a BufWriter): creates the file, or
\* truncates the one that is there, and leaves a handle open on it.
CreateFile(f, p, id) ==
    [f EXCEPT ![p] = [exists |-> TRUE, data |-> <<>>,
                      h |-> IF f[p].exists THEN f[p].h \cup {id} ELSE {id}]]

\* OpenOptions::new().read(true).open
OpenFile(f, p, id) == [f EXCEPT ![p].h = @ \cup {id}]

\* A flushed write through the handle `id` holds on p, at offset 0: it
\* replaces the first Len(data) bytes of the file the handle is on.  When
\* that file is no longer the one at p the write changes nothing at p.
WriteThrough(f, p, id, data) ==
    IF f[p].exists /\ id \in f[p].h
    THEN [f EXCEPT ![p].data = data \o SubSeq(@, Len(data) + 1, Len(@))]
    ELSE f

\* The handles of a call are released when it returns, on every exit path.
CloseHandles(f, id) == [p \in DOMAIN f |-> [f[p] EXCEPT !.h = @ \ {id}]]

\* format!("{}.pub", path.display())
PubkeyPathWithExtension(path) ==
    IF Len(path) > 1
    THEN Append(SubSeq(path, 1, Len(path) - 1), "pub")
    ELSE Append(path, "pub")
PubkeyPath(path) == Append(path, "pub")

\* PathExt::with_additional_extension("sig"), then dunce::simplified
SignaturePath(path) == Append(path, "sig")

\* A call: the function it runs, its arguments, its position, its locals,
\* its result, and what it has done so far (ev: the operations performed,
\* fault: whether the environment made an operation fail, failedOn: the
\* path of the filesystem operation that failed).
NoKeyPair == [pk |-> <<>>, sk |-> <<>>]
Idle ==
    [id |-> 0, op |-> "idle", pc |-> "idle", path |-> <<>>, force |-> FALSE,
     kp |-> NoKeyPair, key |-> 0, cfg |-> SigningConfigNew,
     pw |-> None, pw2 |-> None,
     ts |-> 0, tc |-> <<>>, data |-> <<>>, sig |-> <<>>, res |-> NoRes,
     fault |-> FALSE, failedOn |-> <<>>, ev |-> {}]

Done(c, r) == [c EXCEPT !.pc = "done", !.res = r]
At(c, pc) == [c EXCEPT !.pc = pc]
Did(c, kind, p) == [c EXCEPT !.ev = @ \cup {<<kind, p>>}]
Out(f, c) == [fs |-> f, c |-> c]
\* Return r: the call is over and its handles are closed.
Return(f, c, r) == Out(CloseHandles(f, c.id), Done(c, r))
\* Return r after the filesystem operation on p failed; ok is the
\* environment's answer (FALSE: it made the operation fail).
ReturnFsErr(f, c, r, p, ok) ==
    Return(f, [c EXCEPT !.failedOn = p, !.fault = @ \/ ~ok], r)

(***************************************************************************)
(* fn save_keypair, statement by statement.  e is the environment's answer *)
(* to the filesystem operation of the step: TRUE when it lets it succeed.  *)
(***************************************************************************)
\* if path.exists() { if !force { return Err(SigningKeyExists) } ... }
SvCheckSkUnguarded(f, c, e) ==
    IF Exists(f, c.path) THEN Out(f, At(c, "sv_rm_sk"))
    ELSE Out(f, At(c, "sv_check_pk"))
SvCheckSkInverted(f, c, e) ==
    IF Exists(f, c.path)
    THEN IF c.force
         THEN Return(f, c, ErrPath("SigningKeyExists", c.path))
         ELSE Out(f, At(c, "sv_rm_sk"))
    ELSE Out(f, At(c, "sv_check_pk"))
StepSvCheckSk(f, c, e) ==
    IF Exists(f, c.path)
    THEN IF ~c.force
         THEN Return(f, c, ErrPath("SigningKeyExists", c.path))
         ELSE Out(f, At(c, "sv_rm_sk"))
    ELSE Out(f, At(c, "sv_check_pk"))

\* fs::remove_file(path).map_err(IoWithPath(path))?
StepSvRmSk(f, c, e) ==
    IF e /\ Exists(f, c.path)
    THEN Out(RemoveFile(f, c.path), Did(At(c, "sv_check_pk"), "remove", c.path))
    ELSE ReturnFsErr(f, c, ErrPath("IoWithPath", c.path), c.path, e)

\* if pk_path.exists()
StepSvCheckPk(f, c, e) ==
    IF Exists(f, PubkeyPath(c.path))
    THEN Out(f, At(c, "sv_rm_pk"))
    ELSE Out(f, At(c, "sv_create_sk"))

\* fs::remove_file(pk_path).map_err(IoWithPath(pk_path))?
StepSvRmPk(f, c, e) ==
    LET pk_path == PubkeyPath(c.path)
    IN  IF e /\ Exists(f, pk_path)
        THEN Out(RemoveFile(f, pk_path), Did(At(c, "sv_create_sk"), "remove", pk_path))
        ELSE ReturnFsErr(f, c, ErrPath("IoWithPath", pk_path), pk_path, e)

\* let mut sk_writer = util::create_file(path)?
StepSvCreateSk(f, c, e) ==
    IF e
    THEN Out(CreateFile(f, c.path, c.id), Did(At(c, "sv_write_sk"), "create", c.path))
    ELSE ReturnFsErr(f, c, ErrPath("IoWithPath", c.path), c.path, e)

\* write!(sk_writer, "{}", keypair.sk)?; sk_writer.flush()?
SvWriteSkPublic(f, c, e) ==
    IF e
    THEN Out(WriteThrough(f, c.path, c.id, c.kp.pk),
             Did(At(c, "sv_create_pk"), "write", c.path))
    ELSE ReturnFsErr(f, c, Res("Io"), c.path, e)
StepSvWriteSk(f, c, e) ==
    IF e
    THEN Out(WriteThrough(f, c.path, c.id, c.kp.sk),
             Did(At(c, "sv_create_pk"), "write", c.path))
    ELSE ReturnFsErr(f, c, Res("Io"), c.path, e)

\* let mut pk_writer = util::create_file(pk_path)?
StepSvCreatePk(f, c, e) ==
    LET pk_path == PubkeyPath(c.path)
    IN  IF e
        THEN Out(CreateFile(f, pk_path, c.id), Did(At(c, "sv_write_pk"), "create", pk_path))
        ELSE ReturnFsErr(f, c, ErrPath("IoWithPath", pk_path), pk_path, e)

\* write!(pk_writer, "{}", keypair.pk)?; pk_writer.flush()?
StepSvWritePk(f, c, e) ==
    LET pk_path == PubkeyPath(c.path)
    IN  IF e
        THEN Out(WriteThrough(f, pk_path, c.id, c.kp.pk),
                 Did(At(c, "sv_canon_sk"), "write", pk_path))
        ELSE ReturnFsErr(f, c, Res("Io"), pk_path, e)

\* dunce::canonicalize(path).map_err(IoWithPath(path))?
StepSvCanonSk(f, c, e) ==
    IF e /\ Exists(f, c.path)
    THEN Out(f, At(c, "sv_canon_pk"))
    ELSE ReturnFsErr(f, c, ErrPath("IoWithPath", c.path), c.path, e)

\* dunce::canonicalize(pk_path).map_err(IoWithPath(pk_path))?; Ok((.., ..))
StepSvCanonPk(f, c, e) ==
    LET pk_path == PubkeyPath(c.path)
    IN  IF e /\ Exists(f, pk_path)
        THEN Return(f, c, [Res("Ok") EXCEPT !.path = c.path, !.path2 = pk_path])
        ELSE ReturnFsErr(f, c, ErrPath("IoWithPath", pk_path), pk_path, e)

(***************************************************************************)
(* fn sign_file_with_secret_key and fn sign_file, statement by statement   *)
(***************************************************************************)
\* Wall-clock readings: -1 stands for a clock set before the Unix epoch.
Times == {-1, 0, 1}

SegmentBytes(seg) ==
    CASE seg = "k" -> <<107>>
      [] seg = "pub" -> <<112, 117, 98>>
      [] seg = "sig" -> <<115, 105, 103>>
      [] OTHER -> <<47>>

RECURSIVE JoinDots(_)
JoinDots(path) ==
    IF Len(path) = 1 THEN SegmentBytes(path[1])
    ELSE JoinDots(SubSeq(path, 1, Len(path) - 1)) \o <<46>> \o SegmentBytes(path[Len(path)])

\* Path::file_name
FileName(path) == IF path = Root THEN None ELSE Some(JoinDots(path))

\* Decimal digits of a natural number ({} of format!).
RECURSIVE Decimal(_)
Decimal(n) == IF n < 10 THEN <<48 + n>> ELSE Decimal(n \div 10) \o <<48 + (n % 10)>>

\* format!("timestamp:{}\tfile:{}", since_epoch, file_name)
TrustedComment(since_epoch, file_name) ==
    <<116, 105, 109, 101, 115, 116, 97, 109, 112, 58>> \o Decimal(since_epoch)
    \o <<9>> \o <<102, 105, 108, 101, 58>> \o file_name

\* minisign::sign(..).to_string(): the signature box as text, "G<key><digest>"
\* and the trusted comment on a second line.  The digest stands for the
\* signature over the bytes read; the untrusted comment is a fixed text and
\* is left out.
Digest(data) ==
    LET RECURSIVE Sum(_)
        Sum(bs) == IF Len(bs) = 0 THEN 0 ELSE bs[1] + Sum(Tail(bs))
    IN  Sum(data) % 10
SignatureBoxText(key, data, trusted_comment) ==
    <<71, 48 + key, 48 + Digest(data), 10>> \o trusted_comment

\* let mut signature_box_writer = util::create_file(signature_path)?
StepSgCreate(f, c, e) ==
    LET signature_path == SignaturePath(c.path)
    IN  IF e
        THEN Out(CreateFile(f, signature_path, c.id),
                 Did(At(c, "sg_clock"), "create", signature_path))
        ELSE ReturnFsErr(f, c, ErrPath("IoWithPath", signature_path), signature_path, e)

\* SystemTime::now().duration_since(UNIX_EPOCH)?.as_secs(); e is the clock
StepSgClock(f, c, e) ==
    IF e < 0
    THEN Return(f, [Did(c, "clock", <<>>) EXCEPT !.fault = TRUE], Res("SystemTime"))
    ELSE Out(f, [Did(At(c, "sg_file_name"), "clock", <<>>) EXCEPT !.ts = e])

\* path.file_name().ok_or_else(|| FailedToExtractFilename(path))?
StepSgFileName(f, c, e) ==
    LET file_name == FileName(c.path)
    IN  IF IsSome(file_name)
        THEN Out(f, [At(c, "sg_open") EXCEPT !.tc = TrustedComment(c.ts, Unwrap(file_name))])
        ELSE Return(f, c, ErrPath("FailedToExtractFilename", c.path))

\* OpenOptions::new().read(true).open(path).map_err(IoWithPath(path))?
StepSgOpen(f, c, e) ==
    IF e /\ Exists(f, c.path)
    THEN Out(OpenFile(f, c.path, c.id),
             [Did(At(c, "sg_sign"), "open", c.path) EXCEPT !.data = f[c.path].data])
    ELSE ReturnFsErr(f, c, ErrPath("IoWithPath", c.path), c.path, e)

\* minisign::sign(None, secret_key, file_reader, Some(trusted_comment), ..)?
\* and STANDARD.encode(signature_box.to_string()).  The reader reads the file
\* the handle is on: the one at path, or, once that one was removed, the
\* bytes it held when it was opened.
StepSgSign(f, c, e) ==
    LET read == IF f[c.path].exists /\ c.id \in f[c.path].h
                THEN f[c.path].data ELSE c.data
    IN  IF e
        THEN Out(f, [At(c, "sg_write") EXCEPT
                        !.sig = B64Encode(SignatureBoxText(c.key, read, c.tc))])
        ELSE Return(f, [c EXCEPT !.fault = TRUE], Res("Minisign"))

\* signature_box_writer.write_all(encoded_signature.as_bytes())?; .flush()?
SgWriteNothing(f, c, e) ==
    IF e
    THEN Out(f, Did(At(c, "sg_canon"), "write", SignaturePath(c.path)))
    ELSE ReturnFsErr(f, c, Res("Io"), SignaturePath(c.path), e)
StepSgWrite(f, c, e) ==
    LET signature_path == SignaturePath(c.path)
    IN  IF e
        THEN Out(WriteThrough(f, signature_path, c.id, c.sig),
                 Did(At(c, "sg_canon"), "write", signature_path))
        ELSE ReturnFsErr(f, c, Res("Io"), signature_path, e)

\* Ok((dunce::canonicalize(signature_path).map_err(IoWithPath(path))?,
\*     encoded_signature))
StepSgCanon(f, c, e) ==
    LET signature_path == SignaturePath(c.path)
    IN  IF e /\ Exists(f, signature_path)
        THEN Return(f, c, [Res("Ok") EXCEPT !.path = signature_path, !.text = c.sig])
        ELSE ReturnFsErr(f, c, ErrPath("IoWithPath", c.path), signature_path, e)

\* fn sign_file: let secret_key = decode_private_key(&config.private_key,
\* config.password.as_deref())?; e is the password typed at the prompt.
ScDecodeLate(f, c, e) ==
    LET secret_key == decode_private_key(c.cfg.private_key, c.cfg.password, e)
        signature_path == SignaturePath(c.path)
    IN  IF secret_key.tag = "Ok"
        THEN Out(f, [At(c, "sg_create") EXCEPT !.key = secret_key.key])
        ELSE Return(CreateFile(f, signature_path, c.id),
                    Did(c, "create", signature_path), secret_key)
StepScDecode(f, c, e) ==
    LET secret_key == decode_private_key(c.cfg.private_key, c.cfg.password, e)
    IN  IF secret_key.tag = "Ok"
        THEN Out(f, [At(c, "sg_create") EXCEPT !.key = secret_key.key])
        ELSE Return(f, c, secret_key)

(***************************************************************************)
(* The calls as a state machine                                            *)
(***************************************************************************)
\* The answers the environment can give to the step a call is at.
Env(c) ==
    CASE c.pc = "sg_clock" -> Times
      [] c.pc = "sc_decode" -> Passwords
      [] c.pc \in {"sv_check_sk", "sv_check_pk", "sg_file_name"} -> {TRUE}
      [] OTHER -> BOOLEAN

\* The step of a call that is not over.
StepFn(f, c, e) ==
    CASE c.pc = "sv_check_sk" -> StepSvCheckSk(f, c, e)
      [] c.pc = "sv_rm_sk" -> StepSvRmSk(f, c, e)
      [] c.pc = "sv_check_pk" -> StepSvCheckPk(f, c, e)
      [] c.pc = "sv_rm_pk" -> StepSvRmPk(f, c, e)
      [] c.pc = "sv_create_sk" -> StepSvCreateSk(f, c, e)
      [] c.pc = "sv_write_sk" -> StepSvWriteSk(f, c, e)
      [] c.pc = "sv_create_pk" -> StepSvCreatePk(f, c, e)
      [] c.pc = "sv_write_pk" -> StepSvWritePk(f, c, e)
      [] c.pc = "sv_canon_sk" -> StepSvCanonSk(f, c, e)
      [] c.pc = "sv_canon_pk" -> StepSvCanonPk(f, c, e)
      [] c.pc = "sc_decode" -> StepScDecode(f, c, e)
      [] c.pc = "sg_create" -> StepSgCreate(f, c, e)
      [] c.pc = "sg_clock" -> StepSgClock(f, c, e)
      [] c.pc = "sg_file_name" -> StepSgFileName(f, c, e)
      [] c.pc = "sg_open" -> StepSgOpen(f, c, e)
      [] c.pc = "sg_sign" -> StepSgSign(f, c, e)
      [] c.pc = "sg_write" -> StepSgWrite(f, c, e)
      [] c.pc = "sg_canon" -> StepSgCanon(f, c, e)

Apply(p, o) ==
    /\ fs' = o.fs
    /\ procs' = [procs EXCEPT ![p] = o.c]
    /\ UNCHANGED <<pre, prev, ncalls>>

SaveCheckSk(p) ==
    /\ procs[p].pc = "sv_check_sk"
    /\ Apply(p, StepSvCheckSk(fs, procs[p], TRUE))

SaveRemoveSk(p) ==
    /\ procs[p].pc = "sv_rm_sk"
    /\ \E e \in BOOLEAN : Apply(p, StepSvRmSk(fs, procs[p], e))

SaveCheckPk(p) ==
    /\ procs[p].pc = "sv_check_pk"
    /\ Apply(p, StepSvCheckPk(fs, procs[p], TRUE))

SaveRemovePk(p) ==
    /\ procs[p].pc = "sv_rm_pk"
    /\ \E e \in BOOLEAN : Apply(p, StepSvRmPk(fs, procs[p], e))

SaveCreateSk(p) ==
    /\ procs[p].pc = "sv_create_sk"
    /\ \E e \in BOOLEAN : Apply(p, StepSvCreateSk(fs, procs[p], e))

SaveWriteSk(p) ==
    /\ procs[p].pc = "sv_write_sk"
    /\ \E e \in BOOLEAN : Apply(p, StepSvWriteSk(fs, procs[p], e))

SaveCreatePk(p) ==
    /\ procs[p].pc = "sv_create_pk"
    /\ \E e \in BOOLEAN : Apply(p, StepSvCreatePk(fs, procs[p], e))

SaveWritePk(p) ==
    /\ procs[p].pc = "sv_write_pk"
    /\ \E e \in BOOLEAN : Apply(p, StepSvWritePk(fs, procs[p], e))

SaveCanonSk(p) ==
    /\ procs[p].pc = "sv_canon_sk"
    /\ \E e \in BOOLEAN : Apply(p, StepSvCanonSk(fs, procs[p], e))

SaveCanonPk(p) ==
    /\ procs[p].pc = "sv_canon_pk"
    /\ \E e \in BOOLEAN : Apply(p, StepSvCanonPk(fs, procs[p], e))

SignDecode(p) ==
    /\ procs[p].pc = "sc_decode"
    /\ \E e \in Passwords : Apply(p, StepScDecode(fs, procs[p], e))

SignCreate(p) ==
    /\ procs[p].pc = "sg_create"
    /\ \E e \in BOOLEAN : Apply(p, StepSgCreate(fs, procs[p], e))

SignClock(p) ==
    /\ procs[p].pc = "sg_clock"
    /\ \E e \in Times : Apply(p, StepSgClock(fs, procs[p], e))

SignFileName(p) ==
    /\ procs[p].pc = "sg_file_name"
    /\ Apply(p, StepSgFileName(fs, procs[p], TRUE))

SignOpen(p) ==
    /\ procs[p].pc = "sg_open"
    /\ \E e \in BOOLEAN : Apply(p, StepSgOpen(fs, procs[p], e))

SignSign(p) ==
    /\ procs[p].pc = "sg_sign"
    /\ \E e \in BOOLEAN : Apply(p, StepSgSign(fs, procs[p], e))

SignWrite(p) ==
    /\ procs[p].pc = "sg_write"
    /\ \E e \in BOOLEAN : Apply(p, StepSgWrite(fs, procs[p], e))

SignCanon(p) ==
    /\ procs[p].pc = "sg_canon"
    /\ \E e \in BOOLEAN : Apply(p, StepSgCanon(fs, procs[p], e))

\* The arguments the callers pass.
KeyPairs == { generate_key(Some(<<>>), [seed |-> s, typed |-> <<>>]) : s \in Seeds }
\* A secret key protected by "a"; "!!!!" (no base64); base64 of the byte 255
\* (no UTF-8); base64 of "X" (no key box).
PrivateKeys ==
    { generate_key(Some(<<97>>), [seed |-> 1, typed |-> <<>>]).sk,
      <<33, 33, 33, 33>>, B64Encode(<<255>>), B64Encode(<<88>>) }
Configs ==
    { WithPrivateKey(SigningConfigNew, k) : k \in PrivateKeys }
    \cup { WithPassword(WithPrivateKey(SigningConfigNew, k), w) :
             k \in PrivateKeys, w \in {<<>>, <<97>>} }

NewCall(id, op, pc, path) ==
    [Idle EXCEPT !.id = id, !.op = op, !.pc = pc, !.path = path]

\* What is kept of the call a caller made before the current one.
Summary(c) ==
    [op |-> c.op, path |-> c.path, force |-> c.force, kp |-> c.kp, tag |-> c.res.tag]

CanBegin(p) == procs[p].pc \in {"idle", "done"} /\ ncalls < MaxCalls

Begin(p, c) ==
    /\ ncalls' = ncalls + 1
    /\ procs' = [procs EXCEPT ![p] = c]
    /\ pre' = [pre EXCEPT ![p] = fs]
    /\ prev' = [prev EXCEPT ![p] = Summary(procs[p])]
    /\ UNCHANGED fs

BeginSave(p) ==
    /\ CanBegin(p)
    /\ \E path \in SeqPathArgs, force \in BOOLEAN, kp \in KeyPairs :
        Begin(p, [NewCall(p, "save_keypair", "sv_check_sk", path)
                    EXCEPT !.force = force, !.kp = kp])

BeginSignWithSecretKey(p) ==
    /\ CanBegin(p)
    /\ \E path \in SignPathArgs, key \in Seeds :
        Begin(p, [NewCall(p, "sign_file_with_secret_key", "sg_create", path)
                    EXCEPT !.key = key])

BeginSignFile(p) ==
    /\ CanBegin(p)
    /\ \E path \in SignPathArgs, cfg \in Configs :
        Begin(p, [NewCall(p, "sign_file", "sc_decode", path) EXCEPT !.cfg = cfg])

\* Files that are there before the program runs.
InitFiles(S) == [p \in Files |-> IF p \in S THEN File(OldData) ELSE NoFile]

Init ==
    /\ \E S \in SUBSET PathArgs : fs = InitFiles(S)
    /\ procs = [p \in Procs |-> Idle]
    /\ pre = [p \in Procs |-> fs]
    /\ prev = [p \in Procs |-> Summary(Idle)]
    /\ ncalls = 0

Steps(p) ==
    \/ SaveCheckSk(p) \/ SaveRemoveSk(p) \/ SaveCheckPk(p) \/ SaveRemovePk(p)
    \/ SaveCreateSk(p) \/ SaveWriteSk(p) \/ SaveCreatePk(p) \/ SaveWritePk(p)
    \/ SaveCanonSk(p) \/ SaveCanonPk(p)
    \/ SignCreate(p) \/ SignClock(p) \/ SignFileName(p) \/ SignOpen(p)
    \/ SignSign(p) \/ SignWrite(p) \/ SignCanon(p)

\* One caller, one call after the other.
Next ==
    \/ BeginSave(1) \/ BeginSignWithSecretKey(1) \/ BeginSignFile(1)
    \/ SignDecode(1)
    \/ Steps(1)

Spec == Init /\ [][Next]_vars

\* Two callers, one call each, their steps interleaved.  Caller p passes
\* the key pair and the secret key number p.
ConcCalls(p) ==
    { [NewCall(p, "save_keypair", "sv_check_sk", path) EXCEPT
          !.force = force,
          !.kp = generate_key(Some(<<>>), [seed |-> p, typed |-> <<>>])] :
        path \in PathArgs, force \in BOOLEAN }
    \cup { [NewCall(p, "sign_file_with_secret_key", "sg_create", path) EXCEPT !.key = p] :
             path \in PathArgs }

InitConc ==
    /\ \E S \in SUBSET PathArgs : fs = InitFiles(S)
    /\ \E c1 \in ConcCalls(1), c2 \in ConcCalls(2) :
          procs = [p \in Procs |-> IF p = 1 THEN c1 ELSE c2]
    /\ pre = [p \in Procs |-> fs]
    /\ prev = [p \in Procs |-> Summary(Idle)]
    /\ ncalls = 0

NextConc == \E p \in Procs : Steps(p)

SpecConc == InitConc /\ [][NextConc]_vars

(***************************************************************************)
(* Key generation followed by decoding (one call, two steps)               *)
(***************************************************************************)
KeyEnv == [seed : Seeds, typed : Passwords]

StepKgGenerate(f, c, e) ==
    Out(f, [At(c, "kg_decode") EXCEPT !.kp = generate_key(c.pw, e), !.key = e.seed])

StepKgDecode(f, c, e) ==
    Out(f, Done(c, decode_private_key(c.kp.sk, c.pw2, e.typed)))

KgGenerate(p) ==
    /\ procs[p].pc = "kg_generate"
    /\ \E e \in KeyEnv :
          procs' = [procs EXCEPT ![p] = StepKgGenerate(fs, procs[p], e).c]
    /\ UNCHANGED <<fs, pre, prev, ncalls>>

KgDecode(p) ==
    /\ procs[p].pc = "kg_decode"
    /\ \E e \in KeyEnv :
          procs' = [procs EXCEPT ![p] = StepKgDecode(fs, procs[p], e).c]
    /\ UNCHANGED <<fs, pre, prev, ncalls>>

OptPasswords == {None} \cup { Some(w) : w \in Passwords }

InitKey ==
    /\ fs = [p \in Files |-> NoFile]
    /\ pre = [p \in Procs |-> fs]
    /\ prev = [p \in Procs |-> Summary(Idle)]
    /\ ncalls = 0
    /\ \E pw \in OptPasswords, pw2 \in OptPasswords :
          procs = [p \in Procs |->
                     IF p = 1
                     THEN [NewCall(1, "keys", "kg_generate", <<>>)
                             EXCEPT !.pw = pw, !.pw2 = pw2]
                     ELSE Idle]

NextKey == KgGenerate(1) \/ KgDecode(1)

SpecKey == InitKey /\ [][NextKey]_vars

\* C8: decoding a generated secret key with password pw2 succeeds, and yields
\* the generated key, exactly when pw2 is the password pw it was generated
\* with (the empty password included); with any other password it fails with
\* the wrong-password error and returns no key.
C8_RoundTrip ==
    LET c == procs[1]
    IN  (c.op = "keys" /\ c.pc = "done" /\ IsSome(c.pw) /\ IsSome(c.pw2)) =>
            IF c.pw2 = c.pw
            THEN c.res.tag = "Ok" /\ c.res.key = c.key
            ELSE c.res.tag = "WrongPassword" /\ c.res.key = 0

\* Both cases of C8 happen: a key generated with the empty password decoded
\* with it, and a key generated with "a" refused with "b".
C8_Witness ==
    LET c == procs[1]
    IN  /\ c.op = "keys" /\ c.pc = "done"
        /\ c.pw = Some(<<>>) /\ c.pw2 = Some(<<>>)
        /\ c.res.tag = "Ok" /\ c.res.key = c.key /\ c.key \in Seeds

C8_WitnessWrong ==
    LET c == procs[1]
    IN  /\ c.op = "keys" /\ c.pc = "done"
        /\ c.pw = Some(<<97>>) /\ c.pw2 = Some(<<98>>)
        /\ c.res.tag = "WrongPassword"

(***************************************************************************)
(* Properties of one call (specification Spec: the caller is process 1,    *)
(* pre[1] is the filesystem as the current call found it)                  *)
(***************************************************************************)
Cur == procs[1]
Was == pre[1]
IsSave == Cur.op = "save_keypair"
IsSignWithKey == Cur.op = "sign_file_with_secret_key"
IsSignFile == Cur.op = "sign_file"
Returned == Cur.pc = "done"

\* C1: when the secret-key file at path exists, save_keypair with force =
\* false returns SigningKeyExists(path), and neither the secret-key file nor
\* the public-key file (nor any other file) is touched at any point of the
\* call.
C1_GuardLeavesFiles ==
    (IsSave /\ ~Cur.force /\ Was[Cur.path].exists) =>
        /\ fs = Was
        /\ Cur.ev = {}
        /\ Cur.pc \in {"sv_check_sk", "done"}
        /\ Returned => Cur.res = ErrPath("SigningKeyExists", Cur.path)

\* C1 happens: the guarded call has returned, with both files there before.
C1_Witness ==
    /\ IsSave /\ ~Cur.force /\ Returned
    /\ Was[Cur.path].exists /\ Was[PubkeyPath(Cur.path)].exists
    /\ Cur.res.tag = "SigningKeyExists"

\* C2: save_keypair with force = true and no filesystem failure succeeds
\* whatever was at path before, the files of an earlier forced save of
\* another pair included, and afterwards the file at path holds exactly the
\* secret key passed and the file at path.pub exactly the public key.
C2_ForceReplaces ==
    (IsSave /\ Cur.force /\ Returned /\ ~Cur.fault) =>
        /\ Cur.res = [Res("Ok") EXCEPT !.path = Cur.path,
                                       !.path2 = Append(Cur.path, "pub")]
        /\ fs[Cur.path] = File(Cur.kp.sk)
        /\ fs[Append(Cur.path, "pub")] = File(Cur.kp.pk)

\* C2 happens: a second forced save, of pair B, after a successful forced
\* save of another pair A on the same path, whose files were in place.
C2_Witness ==
    /\ IsSave /\ Cur.force /\ Returned /\ Cur.res.tag = "Ok"
    /\ prev[1].op = "save_keypair" /\ prev[1].force /\ prev[1].tag = "Ok"
    /\ prev[1].path = Cur.path /\ prev[1].kp # Cur.kp
    /\ Was[Cur.path] = File(prev[1].kp.sk)
    /\ Was[Append(Cur.path, "pub")] = File(prev[1].kp.pk)
    /\ fs[Cur.path] = File(Cur.kp.sk)

\* C3 (as claimed): signing a path with no file-name component fails with
\* FailedToExtractFilename(path) before the clock is read and before any
\* file is created or opened.
C3_FailsBeforeClockAndFiles ==
    (IsSignWithKey /\ Returned /\ ~IsSome(FileName(Cur.path))) =>
        /\ Cur.res = ErrPath("FailedToExtractFilename", Cur.path)
        /\ Cur.ev = {}
        /\ fs = Was

\* C4 (as claimed): when save_keypair with force = false returns an error, the
\* secret-key file and the public-key file that existed before the call
\* still exist with their prior content.
C4_NoFileLostOnError ==
    (IsSave /\ ~Cur.force /\ Returned /\ Cur.res.tag # "Ok") =>
        \A p \in {Cur.path, Append(Cur.path, "pub")} :
            Was[p].exists => fs[p] = Was[p]

\* C4 (amended): when save_keypair with force = false returns an error, every
\* file that existed before the call, other than the public-key file, still
\* exists with its prior content; and the public-key file is deleted (or
\* replaced) only when there was no secret-key file at path before the call.
C4_OnlyPublicKeyLostOnError ==
    (IsSave /\ ~Cur.force /\ Returned /\ Cur.res.tag # "Ok") =>
        /\ \A p \in Files \ {Append(Cur.path, "pub")} :
              Was[p].exists => fs[p] = Was[p]
        /\ Was[Cur.path].exists => fs = Was

\* C4 (amended) happens: the call failed after it removed the public-key
\* file that was there.
C4_Witness ==
    /\ IsSave /\ ~Cur.force /\ Returned /\ Cur.res.tag = "IoWithPath"
    /\ ~Was[Cur.path].exists
    /\ Was[Append(Cur.path, "pub")].exists
    /\ ~fs[Append(Cur.path, "pub")].exists

\* C5 (as claimed): every filesystem failure in save_keypair and
\* sign_file_with_secret_key is returned as IoWithPath(p, cause), p being the
\* path of the file the failing operation was performed on.
C5_FailureNamesItsFile ==
    ((IsSave \/ IsSignWithKey) /\ Returned /\ Cur.failedOn # <<>>) =>
        Cur.res = ErrPath("IoWithPath", Cur.failedOn)

\* C6: signing an existing artifact (with a decoded key, or through sign_file
\* once the key is decoded) succeeds when nothing fails, whether or
\* not a .sig file is there already, and after a successful call the .sig
\* file holds exactly the encoded signature the call returned, which decodes
\* to the signature box over the artifact and the trusted comment.
C6_SignatureFileIsReturnedText ==
    LET signature_path == Append(Cur.path, "sig")
        signing == IsSignWithKey \/ (IsSignFile /\ Cur.key # 0)
    IN  /\ (signing /\ Returned /\ ~Cur.fault
              /\ Was[Cur.path].exists /\ Cur.path # Root) => Cur.res.tag = "Ok"
        /\ (signing /\ Returned /\ Cur.res.tag = "Ok") =>
              /\ Cur.res.path = signature_path
              /\ fs[signature_path] = File(Cur.res.text)
              /\ B64Decode(Cur.res.text) =
                    [ok |-> TRUE,
                     val |-> SignatureBoxText(Cur.key, fs[Cur.path].data,
                               TrustedComment(Cur.ts, Unwrap(FileName(Cur.path))))]

\* C6 happens: the artifact is signed again, over the signature file an
\* earlier successful signing left, and the new signature is another text.
C6_Witness ==
    LET signature_path == Append(Cur.path, "sig")
    IN  /\ IsSignWithKey /\ Returned /\ Cur.res.tag = "Ok"
        /\ prev[1].op = "sign_file_with_secret_key" /\ prev[1].tag = "Ok"
        /\ prev[1].path = Cur.path
        /\ Was[signature_path].exists
        /\ Len(Was[signature_path].data) > Len(OldData)
        /\ Was[signature_path].data # Cur.res.text
        /\ fs[signature_path].data = Cur.res.text

\* The errors of decode_private_key.
DecodeErrors == {"Base64", "Utf8", "MalformedKeyBox", "WrongPassword"}

\* C9: sign_file decodes the secret key first: until the decoding is over no
\* file is created, opened or written and the clock is not read; when the
\* decoding fails sign_file returns that error, the filesystem is as the call
\* found it, and the configuration is the one passed; the signing steps run
\* only with the key the configuration decodes to.
C9_DecodeBeforeSigning ==
    IsSignFile =>
        /\ Cur.cfg \in Configs
        /\ Cur.pc = "sc_decode" => (fs = Was /\ Cur.ev = {})
        /\ Cur.pc \notin {"sc_decode", "done"} =>
              \E typed \in Passwords :
                 decode_private_key(Cur.cfg.private_key, Cur.cfg.password, typed)
                    = [Res("Ok") EXCEPT !.key = Cur.key]
        /\ (Returned /\ Cur.key = 0) =>
              /\ Cur.res.tag \in DecodeErrors
              /\ \E typed \in Passwords :
                    Cur.res = decode_private_key(Cur.cfg.private_key,
                                                 Cur.cfg.password, typed)
              /\ fs = Was
              /\ Cur.ev = {}
        /\ (Returned /\ Cur.res.tag \in DecodeErrors) => Cur.key = 0

\* C9 happens: sign_file has returned the wrong-password error, with the
\* artifact and an earlier signature file in place.
C9_Witness ==
    /\ IsSignFile /\ Returned /\ Cur.res.tag = "WrongPassword"
    /\ Cur.path # Root
    /\ Was[Cur.path].exists /\ Was[Append(Cur.path, "sig")].exists

\* C10 (as claimed): when sign_file_with_secret_key returns an error, the
\* signature file at path.sig is as it was before the call.
C10_SignatureFileKeptOnError ==
    (IsSignWithKey /\ Returned /\ Cur.res.tag # "Ok") =>
        fs[Append(Cur.path, "sig")] = Was[Append(Cur.path, "sig")]

(***************************************************************************)
(* Two concurrent calls (specification SpecConc; pre[1] is the filesystem  *)
(* both calls started from)                                                *)
(***************************************************************************)
\* The call c as it was when it began.
Restart(c) ==
    [NewCall(c.id, c.op,
             IF c.op = "save_keypair" THEN "sv_check_sk" ELSE "sg_create", c.path)
       EXCEPT !.force = c.force, !.kp = c.kp,
              !.key = IF c.op = "save_keypair" THEN 0 ELSE c.key]

\* Every way the call c can end when it runs alone from the filesystem f.
RECURSIVE RunSet(_, _)
RunSet(f, c) ==
    IF c.pc = "done" THEN { Out(f, c) }
    ELSE UNION { LET o == StepFn(f, c, e) IN RunSet(o.fs, o.c) : e \in Env(c) }

\* The final filesystem and the results (r1 of call a, r2 of call b) are those
\* of running a and then b, each alone, from f.
SerialAs(f, a, b, final, ra, rb) ==
    \E o1 \in RunSet(f, a) :
        /\ o1.c.res = ra
        /\ \E o2 \in RunSet(o1.fs, b) : o2.c.res = rb /\ o2.fs = final

BothReturned == procs[1].pc = "done" /\ procs[2].pc = "done"

Serializable ==
    LET a == Restart(procs[1])
        b == Restart(procs[2])
    IN  \/ SerialAs(pre[1], a, b, fs, procs[1].res, procs[2].res)
        \/ SerialAs(pre[1], b, a, fs, procs[2].res, procs[1].res)

\* The paths a call removed, created (truncating) or wrote, and those it wrote.
Changed(c) == { x[2] : x \in { y \in c.ev : y[1] \in {"remove", "create", "write"} } }
Wrote(c) == { x[2] : x \in { y \in c.ev : y[1] = "write" } }

NoClobber ==
    /\ Wrote(procs[1]) \cap Changed(procs[2]) = {}
    /\ Wrote(procs[2]) \cap Changed(procs[1]) = {}

\* The files a call works on: its path argument and the sibling it derives.
Footprint(c) ==
    { c.path, Append(c.path, IF c.op = "save_keypair" THEN "pub" ELSE "sig") }

\* C7 (as claimed): two concurrent calls with distinct path arguments end,
\* under every interleaving, with results and file contents that running one
\* call after the other gives, and neither changes a file the other wrote.
C7_DistinctPathsSerializable ==
    (BothReturned /\ procs[1].path # procs[2].path) =>
        (Serializable /\ NoClobber)

\* C7 (amended): the same, for two concurrent calls that work on disjoint
\* files: neither call's path argument or derived .pub / .sig sibling is the
\* other call's path argument or derived sibling.
C7_DisjointFilesSerializable ==
    /\ (Footprint(procs[1]) \cap Footprint(procs[2]) = {}) => NoClobber
    /\ (BothReturned /\ Footprint(procs[1]) \cap Footprint(procs[2]) = {}) =>
          Serializable

\* C7 (amended) happens: a save and a signing on disjoint files have both
\* succeeded, each having taken steps while the other was under way.
C7_Witness ==
    /\ BothReturned
    /\ procs[1].op = "save_keypair" /\ procs[2].op = "sign_file_with_secret_key"
    /\ Footprint(procs[1]) \cap Footprint(procs[2]) = {}
    /\ procs[1].res.tag = "Ok" /\ procs[2].res.tag = "Ok"
    /\ pre[1][procs[1].path].exists

=============================================================================
